---- MODULE Spec2Model ----
(***************************************************************************)
(* A model of cloud/amazon/ec2_vpc.py: the module's two reconcilers,       *)
(* ensure_vpc_present and ensure_vpc_absent, the matcher find_vpc they     *)
(* share, and main's dispatch and error reporting, run against a model of  *)
(* the provider (VPCs with their tags, subnets and route tables).          *)
(*                                                                         *)
(* One pass (one run of main) is a sequence of steps, one per provider     *)
(* call.  Every mutating provider call is appended to the pass's log, so   *)
(* that what a pass did, and in which order, is a predicate of the state.  *)
(*                                                                         *)
(* Python 2 semantics that the model keeps:                                *)
(*  - a name bound by "except X, e" stays bound after the handler, and a   *)
(*    read of a local name that was never bound raises UnboundLocalError   *)
(*    (field eBound);                                                      *)
(*  - main catches AnsibleVPCException only (result kind "fail", reported  *)
(*    through fail_json); any other exception leaves the module with a     *)
(*    traceback (result kind "crash").                                     *)
(***************************************************************************)
EXTENDS Integers, Sequences, FiniteSets, TLC

(***************************************************************************)
(* Bounds of the model.                                                    *)
(***************************************************************************)
MaxVpcs == 3          \* VPC identifiers the provider can hand out
MaxSubnets == 2       \* subnet identifiers
MaxRouteTables == 2   \* route table identifiers
WaitTicks == 2        \* wait_timeout, in clock ticks (one tick = one sleep)

VpcIds == 1..MaxVpcs
SubnetIds == 1..MaxSubnets
RtIds == 1..MaxRouteTables
Procs == {"p1", "p2"}

None == 0             \* Python's None, for an identifier
NoCidr == "none"      \* Python's None, for cidr_block
NoVal == "-"          \* the key is not in the dict

TagKeys == {"Env", "Owner"}
TagVals == {"dev", "prod"}
NoTags == [k \in TagKeys |-> NoVal]

VARIABLES
    vpcs,       \* provider: VPC id -> [state, cidr, tags]
    subnetVpc,  \* provider: subnet id -> the VPC it is in (None: no such subnet)
    rts,        \* provider: route table id -> [vpc, assoc], assoc the main flags
                \*   of the table's associations
    spec,       \* the module parameters of the play (main, lines 515-525)
    active,     \* the invocations that run
    proc        \* invocation -> its locals and its position

vars == <<vpcs, subnetVpc, rts, spec, active, proc>>

(***************************************************************************)
(* Helpers.                                                                *)
(***************************************************************************)
\* dict.items(): the (key, value) pairs of a tag mapping
Items(m) == {<<k, m[k]>> : k \in {x \in TagKeys : m[x] # NoVal}}

\* the orders in which the provider may list the members of S
Orderings(S) ==
    {f \in [1..Cardinality(S) -> S] : \A x \in S : \E i \in 1..Cardinality(S) : f[i] = x}

Range(f) == {f[i] : i \in 1..Len(f)}

NoVpc == [state |-> "none", cidr |-> NoCidr, tags |-> NoTags]

\* one mutating provider call, as the log keeps it
Call(op, id, a1, a2, tags, ok) ==
    [op |-> op, id |-> id, a1 |-> a1, a2 |-> a2, tags |-> tags, ok |-> ok]

YesNo(b) == IF b THEN "yes" ELSE "no"

(***************************************************************************)
(* The provider, as the module reads it.                                   *)
(***************************************************************************)
\* get_all_vpcs(None, {'vpc-id': vpc_id, 'state': 'available'}) when vpc_id is
\* given, get_all_vpcs(None, {'cidr': cidr, 'state': 'available'}) otherwise
GetAllVpcs(vpc_id, cidr) ==
    {v \in VpcIds : /\ vpcs[v].state = "available"
                    /\ IF vpc_id # None THEN v = vpc_id ELSE vpcs[v].cidr = cidr}

\* {t.name: t.value for t in get_all_tags(filters={'resource-id': id})}
GetAllTags(v) == vpcs[v].tags

\* get_all_subnets(filters={'vpc_id': id})
GetAllSubnets(v) == {s \in SubnetIds : subnetVpc[s] = v}

\* get_all_route_tables(filters={'vpc-id': id})
GetAllRouteTables(v) == {r \in RtIds : rts[r].vpc = v}

FreeVpcIds == {v \in VpcIds : vpcs[v].state = "none"}
FreshVpcId == CHOOSE v \in FreeVpcIds : \A w \in FreeVpcIds : v <= w

(***************************************************************************)
(* find_vpc (lines 209-252).                                               *)
(***************************************************************************)
\* line 219: neither an id nor a cidr block with tags
InvalidSpec(resource_tags, vpc_id, cidr) ==
    vpc_id = None /\ (cidr = NoCidr \/ Items(resource_tags) = {})

\* the keys are compared, the values are not
TagsMatch_KeysOnly(resource_tags, vpc_tags) ==
    \A k \in TagKeys : resource_tags[k] # NoVal => vpc_tags[k] # NoVal

\* lines 242-243: every desired pair is in the VPC's tags, key and value
TagsMatch(resource_tags, vpc_tags) ==
    \A k \in TagKeys :
        resource_tags[k] # NoVal =>
            (vpc_tags[k] # NoVal /\ vpc_tags[k] = resource_tags[k])

\* lines 224-244: the candidates, in the order the provider listed them
found_vpcs(listing, resource_tags, vpc_id) ==
    IF vpc_id # None
    THEN listing
    ELSE SelectSeq(listing, LAMBDA v : TagsMatch(resource_tags, GetAllTags(v)))

\* the first candidate is taken when there are several
find_vpc_first(listing, resource_tags, vpc_id) ==
    LET found == found_vpcs(listing, resource_tags, vpc_id) IN
    IF Len(found) = 0 THEN [kind |-> "none", vpc |-> None]
    ELSE [kind |-> "one", vpc |-> found[1]]

\* several candidates are taken as none
find_vpc_unless_many(listing, resource_tags, vpc_id) ==
    LET found == found_vpcs(listing, resource_tags, vpc_id) IN
    IF Len(found) = 1 THEN [kind |-> "one", vpc |-> found[1]]
    ELSE [kind |-> "none", vpc |-> None]

\* lines 246-252
find_vpc(listing, resource_tags, vpc_id) ==
    LET found == found_vpcs(listing, resource_tags, vpc_id) IN
    IF Len(found) = 0 THEN [kind |-> "none", vpc |-> None]
    ELSE IF Len(found) = 1 THEN [kind |-> "one", vpc |-> found[1]]
    ELSE [kind |-> "many", vpc |-> None]

(***************************************************************************)
(* route_table_is_main (lines 255-261).  The provider never lists a table   *)
(* without an id, so line 256 is kept as the test against None.            *)
(***************************************************************************)
\* only the first association is looked at
route_table_is_main_first(id, associations) ==
    \/ id = None
    \/ (Len(associations) > 0 /\ associations[1])

route_table_is_main(id, associations) ==
    \/ id = None
    \/ \E i \in 1..Len(associations) : associations[i]

(***************************************************************************)
(* The locals of one invocation.                                           *)
(***************************************************************************)
NoResult == [kind |-> "none", changed |-> FALSE, err |-> ""]

InitProc ==
    [pc |-> "idle",         \* where the invocation is
     mode |-> "present",    \* state: present or absent
     check |-> FALSE,       \* module.check_mode
     vpc |-> None,          \* the resolved VPC
     found |-> FALSE,       \* find_vpc returned a VPC
     changed |-> FALSE,
     new_tags |-> NoTags,   \* lines 330-334
     pending |-> FALSE,     \* line 293
     left |-> 0,            \* ticks until the deadline of line 294
     polled |-> FALSE,      \* a poll saw the VPC available
     answer |-> "",         \* what the last poll got: a state or an error code
     eBound |-> FALSE,      \* the local name e is bound
     vpc_tags |-> NoTags,   \* line 324
     current_subnets |-> <<>>,       \* line 359
     current_route_tables |-> <<>>,  \* line 397
     i |-> 1,               \* position of the running for loop
     log |-> <<>>,          \* the mutating provider calls of this pass
     at |-> "idle",         \* where the pass ended
     prev_tagged |-> None,  \* the VPC that the invocation's previous pass tagged
     rerun |-> FALSE,       \* history: this pass runs the play again after a
                            \*   pass of the invocation that applied it and ended well
     predicted |-> "-",     \* history: what the pass before this one, run in
                            \*   check mode for the same state, reported as
                            \*   changed ("yes" or "no"), if there was one
     prev_pending |-> {},   \* history: the VPCs that were pending when that pass ended
     pending_at_end |-> {}, \* history: the VPCs pending when this pass ended well
     result |-> NoResult]

\* the VPCs that the provider has not made available yet
PendingVpcs == {v \in VpcIds : vpcs[v].state = "pending"}

\* main, line 562: module.exit_json(**result); P is the invocation's locals
Done(p, P, changed) ==
    proc' = [proc EXCEPT ![p] =
               [P EXCEPT !.pc = "idle", !.at = P.pc, !.changed = changed,
                         !.pending_at_end = PendingVpcs,
                         !.result = [kind |-> "ok", changed |-> changed, err |-> ""]]]

\* main without its except clause: the exception leaves the module
Fail_Uncaught(p, P, err) ==
    proc' = [proc EXCEPT ![p] =
               [P EXCEPT !.pc = "idle", !.at = P.pc,
                         !.result = [kind |-> "crash", changed |-> FALSE, err |-> err]]]

\* main, lines 559-560: an AnsibleVPCException is reported through fail_json
Fail(p, P, err) ==
    proc' = [proc EXCEPT ![p] =
               [P EXCEPT !.pc = "idle", !.at = P.pc,
                         !.result = [kind |-> "fail", changed |-> FALSE, err |-> err]]]

\* any other exception is not caught by main: the module dies with a traceback
Crash(p, P, err) ==
    proc' = [proc EXCEPT ![p] =
               [P EXCEPT !.pc = "idle", !.at = P.pc,
                         !.result = [kind |-> "crash", changed |-> FALSE, err |-> err]]]

\* the locals P with one more call in the log
Logged(P, call) == [P EXCEPT !.log = Append(@, call)]

\* the calls of a pass with the given name, and those that the provider accepted
CallsOf(P, op) == {i \in 1..Len(P.log) : P.log[i].op = op}
DoneCallsOf(P, op) == {i \in CallsOf(P, op) : P.log[i].ok}

\* the VPC that the pass put tags on, if it did
Tagged(P) == IF DoneCallsOf(P, "create_tags") # {} THEN P.vpc ELSE None

Provider == <<vpcs, subnetVpc, rts>>

(***************************************************************************)
(* main (lines 491-562): one invocation starts.  state and check_mode are  *)
(* drawn here; the other parameters are the play's (spec).                 *)
(***************************************************************************)
\* the pass P has applied the play (state=present, no check mode) and ended well
Applied(P) ==
    P.pc = "idle" /\ P.result.kind = "ok" /\ P.mode = "present" /\ ~P.check

\* the pass P was run in check mode and ended well
DryRun(P) == P.pc = "idle" /\ P.result.kind = "ok" /\ P.check

Begin(p) ==
    /\ p \in active
    /\ proc[p].pc = "idle"
    /\ \E mode \in {"present", "absent"}, check \in BOOLEAN :
         LET again == Applied(proc[p]) /\ mode = "present" /\ ~check
             dry   == DryRun(proc[p]) /\ mode = proc[p].mode /\ ~check
         IN
         proc' = [proc EXCEPT ![p] =
                    [InitProc EXCEPT !.pc = "find", !.mode = mode, !.check = check,
                                     !.prev_tagged = Tagged(proc[p]),
                                     !.rerun = again,
                                     !.predicted =
                                         IF dry THEN YesNo(proc[p].result.changed)
                                         ELSE "-",
                                     !.prev_pending = IF again \/ dry
                                                      THEN proc[p].pending_at_end
                                                      ELSE {}]]
    /\ UNCHANGED <<Provider, spec, active>>

(***************************************************************************)
(* ensure_vpc_present, lines 283-290: what the pass does with the          *)
(* matcher's answer v.                                                     *)
(***************************************************************************)
\* a VPC is created whatever the matcher answered
NeedsCreate_Always(v) == TRUE

\* line 283
NeedsCreate(v) == v = None

PresentResolved(p, v) ==
    IF NeedsCreate(v)
    THEN IF proc[p].check
         THEN Done(p, proc[p], TRUE)                          \* line 285
         ELSE proc' = [proc EXCEPT ![p].changed = TRUE,       \* line 287
                                   ![p].pc = "create"]
    ELSE proc' = [proc EXCEPT ![p].vpc = v, ![p].found = TRUE, ![p].pc = "tags"]

(***************************************************************************)
(* ensure_vpc_absent, lines 448-488.  state is the state attribute of the  *)
(* VPC object the matcher returned.                                        *)
(***************************************************************************)
\* line 456
AbsentSkips(v, state) == v = None \/ state = "available"

\* check mode reports no change for a VPC that it found
DryRunChanged_Never(state) == FALSE

\* lines 452-455: what check mode reports for the VPC that it found
DryRunChanged(state) == state = "available"

AbsentResolved(p, v) ==
    LET state == IF v = None THEN "none" ELSE vpcs[v].state IN
    IF proc[p].check
    THEN IF v = None
         THEN Done(p, proc[p], FALSE)                         \* line 451
         ELSE Done(p, [proc[p] EXCEPT !.vpc = v, !.found = TRUE],
                   DryRunChanged(state))                      \* lines 452-455, 488
    ELSE IF AbsentSkips(v, state)
         THEN IF v = None
              \* line 488 reads vpc.id of None
              THEN Crash(p, proc[p], "AttributeError")
              ELSE Done(p, [proc[p] EXCEPT !.vpc = v, !.found = TRUE],
                        FALSE)                                \* lines 457, 488
         \* lines 459-486: the deletions.  The matcher lists VPCs under the
         \* filter state = available, so no pass gets here.
         ELSE proc' = [proc EXCEPT ![p].vpc = v, ![p].found = TRUE,
                                   ![p].changed = TRUE, ![p].pc = "teardown"]

(***************************************************************************)
(* Line 281 / line 446: the call of find_vpc, and the branch on its answer.*)
(***************************************************************************)
FindStep(p) ==
    /\ proc[p].pc = "find"
    /\ IF InvalidSpec(spec.resource_tags, spec.vpc_id, spec.cidr_block)
       THEN Fail(p, proc[p], "InvalidSpec")                   \* lines 219-222
       ELSE \/ Crash(p, proc[p], "EC2ResponseError")          \* a read fails
            \/ \E listing \in Orderings(GetAllVpcs(spec.vpc_id, spec.cidr_block)) :
                 LET r == find_vpc(listing, spec.resource_tags, spec.vpc_id) IN
                 IF r.kind = "many"
                 THEN Fail(p, proc[p], "AmbiguousMatch")      \* lines 251-252
                 ELSE IF proc[p].mode = "present"
                      THEN PresentResolved(p, r.vpc)
                      ELSE AbsentResolved(p, r.vpc)
    /\ UNCHANGED <<Provider, spec, active>>

(***************************************************************************)
(* Lines 288-294: create_vpc.  The provider refuses when it has no         *)
(* identifier left or is given no cidr block, and may refuse anyway; the   *)
(* BotoServerError is caught at line 317.  A new VPC is pending.           *)
(***************************************************************************)
CreateStep(p) ==
    LET P == proc[p]
        call(id, ok) == Call("create_vpc", id, spec.cidr_block,
                             spec.instance_tenancy, NoTags, ok)
    IN
    /\ P.pc = "create"
    /\ \/ /\ Fail(p, Logged(P, call(None, FALSE)), "ProviderError")
          /\ UNCHANGED vpcs
       \/ /\ FreeVpcIds # {}
          /\ spec.cidr_block # NoCidr
          /\ LET id == FreshVpcId IN
             /\ vpcs' = [vpcs EXCEPT ![id] = [state |-> "pending",
                                              cidr |-> spec.cidr_block,
                                              tags |-> NoTags]]
             /\ proc' = [proc EXCEPT ![p].vpc = id,
                                     ![p].pending = TRUE,              \* line 293
                                     ![p].left = WaitTicks,            \* line 294
                                     ![p].log = Append(P.log, call(id, TRUE)),
                                     ![p].pc = "wait_cond"]
    /\ UNCHANGED <<subnetVpc, rts, spec, active>>

(***************************************************************************)
(* Lines 295-316: the wait for availability.  left is the deadline minus   *)
(* time.time(): the clock runs on its own (Tick) and with every sleep.     *)
(***************************************************************************)
\* line 295: while wait and wait_timeout > time.time() and pending
WaitCond(p) ==
    /\ proc[p].pc = "wait_cond"
    /\ proc' = [proc EXCEPT ![p].pc =
                  IF spec.wait /\ proc[p].left > 0 /\ proc[p].pending
                  THEN "poll" ELSE "wait_check"]
    /\ UNCHANGED <<Provider, spec, active>>

\* the error codes a poll may get from the provider
NotFoundCode == "InvalidVpcID.NotFound"
PollErrorCodes == {NotFoundCode, "RequestLimitExceeded"}

\* every error of a poll is taken as "not there yet"
StillPending_Any(error_code) == TRUE

\* line 308: the error that the loop takes as "not there yet"
StillPending(error_code) == error_code = NotFoundCode

\* lines 296-311: one poll.  The provider answers with the VPC's state, or
\* with InvalidVpcID.NotFound while the VPC is not available yet, or with
\* another error.  The error is caught at line 307 (e stays bound) and, if it
\* is not the one of line 308, raised again and caught at line 317, which
\* formats the message from its code.
Poll(p) ==
    LET P == proc[p]
        v == P.vpc
    IN
    /\ P.pc = "poll"
    /\ \/ /\ vpcs[v].state # "none"
          /\ LET pend == vpcs[v].state # "available" IN
             proc' = [proc EXCEPT ![p].pending = pend,
                                  ![p].polled = ~pend,
                                  ![p].answer = vpcs[v].state,
                                  ![p].pc = IF pend THEN "sleep" ELSE "wait_cond"]
       \/ \E code \in PollErrorCodes :
             /\ code = NotFoundCode => vpcs[v].state # "available"
             /\ LET Q == [P EXCEPT !.eBound = TRUE, !.answer = code] IN
                IF StillPending(code)
                THEN proc' = [proc EXCEPT ![p] = [Q EXCEPT !.pc = "sleep"]]
                ELSE Fail(p, Q, "ProviderError")
    /\ UNCHANGED <<Provider, spec, active>>

\* line 311: time.sleep(5)
Sleep(p) ==
    /\ proc[p].pc = "sleep"
    /\ proc' = [proc EXCEPT ![p].left = IF @ > 0 THEN @ - 1 ELSE 0,
                            ![p].pc = "wait_cond"]
    /\ UNCHANGED <<Provider, spec, active>>

\* the deadline is never taken as passed
TimedOut_Never(wait, left) == FALSE

\* line 312: wait and wait_timeout <= time.time()
TimedOut(wait, left) == wait /\ left <= 0

\* lines 312-316
WaitCheck(p) ==
    /\ proc[p].pc = "wait_check"
    /\ IF TimedOut(spec.wait, proc[p].left)
       THEN Fail(p, proc[p], "WaitTimeout")
       ELSE proc' = [proc EXCEPT ![p].pc = "tags"]
    /\ UNCHANGED <<Provider, spec, active>>

\* the clock, while an invocation waits
Tick(p) ==
    /\ proc[p].pc \in {"wait_cond", "poll", "sleep", "wait_check"}
    /\ proc[p].left > 0
    /\ proc' = [proc EXCEPT ![p].left = @ - 1]
    /\ UNCHANGED <<Provider, spec, active>>

\* the provider finishes the creation of a VPC
VpcBecomesAvailable(v) ==
    /\ vpcs[v].state = "pending"
    /\ vpcs' = [vpcs EXCEPT ![v].state = "available"]
    /\ UNCHANGED <<subnetVpc, rts, spec, active, proc>>

(***************************************************************************)
(* Lines 321-394: the order of the steps after the VPC is there.           *)
(***************************************************************************)
\* the subnets are pruned before the attributes are written
After_SubnetsFirst(step) ==
    IF step = "tags" THEN "subnets"
    ELSE IF step = "subnets" THEN "attrs"
    ELSE "route_tables"

\* the step that follows the tags (line 348), the attributes (line 357) and
\* the subnets (line 394)
After(step) ==
    IF step = "tags" THEN "attrs"
    ELSE IF step = "attrs" THEN "subnets"
    ELSE "route_tables"

(***************************************************************************)
(* Lines 323-346: the resource tags.                                       *)
(***************************************************************************)
\* lines 328-329
TagsDiffer(resource_tags, vpc_tags) ==
    /\ Items(resource_tags) # {}
    /\ ~(Items(resource_tags) \subseteq Items(vpc_tags))

\* every desired pair is written again
new_tags_all(resource_tags, vpc_tags) == resource_tags

\* lines 330-334: the desired pairs that the VPC does not carry
new_tags(resource_tags, vpc_tags) ==
    [k \in TagKeys |->
        IF resource_tags[k] # NoVal /\ <<k, resource_tags[k]>> \notin Items(vpc_tags)
        THEN resource_tags[k] ELSE NoVal]

\* lines 324-343: get_all_tags (not in a try block), the comparison, and the
\* return of check mode
TagsStep(p) ==
    LET P == proc[p] IN
    /\ P.pc = "tags"
    /\ \/ Crash(p, P, "EC2ResponseError")
       \/ LET vt == GetAllTags(P.vpc)
              nt == IF TagsDiffer(spec.resource_tags, vt)
                    THEN new_tags(spec.resource_tags, vt) ELSE NoTags
              Q  == [P EXCEPT !.vpc_tags = vt, !.new_tags = nt]
          IN
          IF Items(nt) # {}                                   \* line 336
          THEN IF P.check
               THEN Done(p, Q, TRUE)                          \* lines 337-343
               ELSE proc' = [proc EXCEPT ![p] = [Q EXCEPT !.pc = "create_tags"]]
          ELSE proc' = [proc EXCEPT ![p] = [Q EXCEPT !.pc = After("tags")]]
    /\ UNCHANGED <<Provider, spec, active>>

\* the tags of the resource are replaced by the given ones
ApplyTags_Replace(old, given) == given

\* line 345: what create_tags does to the tags of the resource: the given
\* pairs are added, or overwrite the value of their key
ApplyTags(old, given) ==
    [k \in TagKeys |-> IF given[k] # NoVal THEN given[k] ELSE old[k]]

\* lines 345-346: create_tags(vpc.id, new_tags), not in a try block
CreateTags(p) ==
    LET P == proc[p]
        v == P.vpc
        call(ok) == Call("create_tags", v, "", "", P.new_tags, ok)
    IN
    /\ P.pc = "create_tags"
    /\ \/ /\ Crash(p, Logged(P, call(FALSE)), "EC2ResponseError")
          /\ UNCHANGED vpcs
       \/ /\ vpcs[v].state # "none"
          /\ vpcs' = [vpcs EXCEPT ![v].tags = ApplyTags(@, P.new_tags)]
          /\ proc' = [proc EXCEPT ![p] =
                        [Logged(P, call(TRUE)) EXCEPT !.changed = TRUE,
                                                      !.pc = After("tags")]]
    /\ UNCHANGED <<subnetVpc, rts, spec, active>>

(***************************************************************************)
(* Lines 348-355: the dns attributes, written without being read.          *)
(***************************************************************************)
\* the attribute writes without the test of check_mode
WritesAttributes_Always(check) == TRUE

\* no attribute is written
WritesAttributes_Never(check) == FALSE

\* line 351
WritesAttributes(check) == ~check

\* lines 352-353
ModifyDnsSupport(p) ==
    LET P == proc[p]
        call(ok) == Call("modify_vpc_attribute", P.vpc, "enable_dns_support",
                         YesNo(spec.dns_support), NoTags, ok)
    IN
    /\ P.pc = "attrs"
    /\ IF WritesAttributes(P.check)
       THEN \/ Crash(p, Logged(P, call(FALSE)), "EC2ResponseError")
            \/ /\ vpcs[P.vpc].state # "none"
               /\ proc' = [proc EXCEPT ![p] =
                             [Logged(P, call(TRUE)) EXCEPT !.pc = "attrs2"]]
       ELSE proc' = [proc EXCEPT ![p].pc = After("attrs")]
    /\ UNCHANGED <<Provider, spec, active>>

\* lines 354-355
ModifyDnsHostnames(p) ==
    LET P == proc[p]
        call(ok) == Call("modify_vpc_attribute", P.vpc, "enable_dns_hostnames",
                         YesNo(spec.dns_hostnames), NoTags, ok)
    IN
    /\ P.pc = "attrs2"
    /\ \/ Crash(p, Logged(P, call(FALSE)), "EC2ResponseError")
       \/ /\ vpcs[P.vpc].state # "none"
          /\ proc' = [proc EXCEPT ![p] =
                        [Logged(P, call(TRUE)) EXCEPT !.pc = After("attrs")]]
    /\ UNCHANGED <<Provider, spec, active>>

(***************************************************************************)
(* Lines 357-388: the subnets.                                             *)
(***************************************************************************)
\* lines 361-362: a listed id that is not among the current subnets
UnknownSubnet(subnet_ids, current_subnets) ==
    \E id \in subnet_ids : id \notin Range(current_subnets)

\* the test of line 367, negated
SubnetKept_Negated(subnet, subnet_ids) == subnet \notin subnet_ids

\* line 367
SubnetKept(subnet, subnet_ids) == subnet \in subnet_ids

\* lines 358-364: get_all_subnets (not in a try block) and the validation.
\* Line 364 formats its message with the local name e, which is bound only
\* if the poll of line 297 raised InvalidVpcID.NotFound earlier in the pass.
ListSubnets(p) ==
    LET P == proc[p] IN
    /\ P.pc = "subnets"
    /\ IF ~spec.subnet_ids.given
       THEN proc' = [proc EXCEPT ![p].pc = "json_subnets"]
       ELSE \/ Crash(p, P, "EC2ResponseError")
            \/ \E listing \in Orderings(GetAllSubnets(P.vpc)) :
                 LET Q == [P EXCEPT !.current_subnets = listing, !.i = 1] IN
                 IF UnknownSubnet(spec.subnet_ids.ids, listing)
                 THEN IF P.eBound
                      THEN Fail(p, Q, "UnknownChildId")
                      ELSE Crash(p, Q, "UnboundLocalError")
                 ELSE proc' = [proc EXCEPT ![p] = [Q EXCEPT !.pc = "subnet_loop"]]
    /\ UNCHANGED <<Provider, spec, active>>

\* lines 366-388: one turn of the loop over current_subnets
SubnetLoop(p) ==
    LET P == proc[p] IN
    /\ P.pc = "subnet_loop"
    /\ IF P.i > Len(P.current_subnets)
       THEN /\ proc' = [proc EXCEPT ![p].pc = "json_subnets"]
            /\ UNCHANGED subnetVpc
       ELSE LET subnet == P.current_subnets[P.i]
                call(ok) == Call("delete_subnet", subnet, "", "", NoTags, ok)
            IN
            IF SubnetKept(subnet, spec.subnet_ids.ids)
            THEN /\ proc' = [proc EXCEPT ![p].i = @ + 1]      \* line 368
                 /\ UNCHANGED subnetVpc
            ELSE IF P.check
            THEN /\ \/ Done(p, P, TRUE)                       \* lines 370-380
                    \* subnet_json reads the tags of the kept subnets
                    \/ /\ \E s \in Range(P.current_subnets) :
                            SubnetKept(s, spec.subnet_ids.ids)
                       /\ Crash(p, P, "EC2ResponseError")
                 /\ UNCHANGED subnetVpc
            ELSE \/ /\ subnetVpc[subnet] # None               \* lines 383-384
                    /\ subnetVpc' = [subnetVpc EXCEPT ![subnet] = None]
                    /\ proc' = [proc EXCEPT ![p] =
                                  [Logged(P, call(TRUE)) EXCEPT !.changed = TRUE,
                                                                !.i = @ + 1]]
                 \/ /\ Fail(p, Logged(P, call(FALSE)), "ProviderError")  \* 385-388
                    /\ UNCHANGED subnetVpc
    /\ UNCHANGED <<vpcs, rts, spec, active>>

\* lines 390-392: the subnets are listed again, with their tags, for the report
JsonSubnets(p) ==
    LET P == proc[p] IN
    /\ P.pc = "json_subnets"
    /\ \/ Crash(p, P, "EC2ResponseError")
       \/ proc' = [proc EXCEPT ![p].pc = After("subnets")]
    /\ UNCHANGED <<Provider, spec, active>>

(***************************************************************************)
(* Lines 394-426: the route tables, and the report.                        *)
(***************************************************************************)
\* a change is reported whenever the pass has made a call
ReportedChanged_AnyCall(P) == P.log # <<>>

\* line 422: 'changed': changed
ReportedChanged(P) == P.changed

\* lines 401-402
RouteTableKept(id, associations, route_table_ids) ==
    id \in route_table_ids \/ route_table_is_main(id, associations)

\* lines 394-398: get_all_route_tables (not in a try block)
ListRouteTables(p) ==
    LET P == proc[p] IN
    /\ P.pc = "route_tables"
    /\ IF ~spec.route_table_ids.given
       THEN Done(p, P, ReportedChanged(P))                    \* lines 421-426
       ELSE \/ Crash(p, P, "EC2ResponseError")
            \/ \E listing \in Orderings(GetAllRouteTables(P.vpc)) :
                 proc' = [proc EXCEPT ![p].current_route_tables = listing,
                                      ![p].i = 1, ![p].pc = "rt_loop"]
    /\ UNCHANGED <<Provider, spec, active>>

\* lines 400-419: one turn of the loop over current_route_tables
RouteTableLoop(p) ==
    LET P == proc[p] IN
    /\ P.pc = "rt_loop"
    /\ IF P.i > Len(P.current_route_tables)
       THEN /\ Done(p, P, ReportedChanged(P))                 \* lines 421-426
            /\ UNCHANGED rts
       ELSE LET rt == P.current_route_tables[P.i]
                call(ok) == Call("delete_route_table", rt, "", "", NoTags, ok)
            IN
            IF RouteTableKept(rt, rts[rt].assoc, spec.route_table_ids.ids)
            THEN /\ proc' = [proc EXCEPT ![p].i = @ + 1]      \* line 403
                 /\ UNCHANGED rts
            ELSE IF P.check
            THEN /\ Done(p, P, TRUE)                          \* lines 405-411
                 /\ UNCHANGED rts
            ELSE \/ /\ rts[rt].vpc # None                     \* lines 414-415
                    /\ rts' = [rts EXCEPT ![rt] = [vpc |-> None, assoc |-> <<>>]]
                    /\ proc' = [proc EXCEPT ![p] =
                                  [Logged(P, call(TRUE)) EXCEPT !.changed = TRUE,
                                                                !.i = @ + 1]]
                 \/ /\ Fail(p, Logged(P, call(FALSE)), "ProviderError")  \* 416-419
                    /\ UNCHANGED rts
    /\ UNCHANGED <<vpcs, subnetVpc, spec, active>>

(***************************************************************************)
(* The initial states: a provider state and the parameters of a play.      *)
(* Four families of plays are drawn:                                       *)
(*   InitMatch       any two VPCs, no children, every way of naming a VPC; *)
(*   InitSubnets     a VPC with any subnets, and any subnet_ids;           *)
(*   InitRouteTables a VPC with any route tables, and any route_table_ids; *)
(*   InitCreate      no VPC of that name, children named, wait or not.     *)
(***************************************************************************)
Tags(env, owner) == [k \in TagKeys |-> IF k = "Env" THEN env ELSE owner]

Vpc(state, cidr, tags) == [state |-> state, cidr |-> cidr, tags |-> tags]

\* the VPCs a play may find: the second carries more tags than the first, the
\* third the same keys with another value of Env, the fourth is not available
\* yet, the fifth has another cidr block
VpcKinds ==
    {Vpc("available", "10.0.0.0/16", Tags("dev", NoVal)),
     Vpc("available", "10.0.0.0/16", Tags("dev", "prod")),
     Vpc("available", "10.0.0.0/16", Tags("prod", "prod")),
     Vpc("pending",   "10.0.0.0/16", Tags("dev", NoVal)),
     Vpc("available", "10.1.0.0/16", Tags("dev", NoVal))}

\* the identifiers that carry a VPC when the play starts
PopulatedVpcIds == {1, 2}

DesiredTags == {NoTags, Tags("dev", NoVal), Tags("dev", "prod")}

\* instance_tenancy, dns_support, dns_hostnames
Attributes ==
    {[instance_tenancy |-> "default", dns_support |-> TRUE, dns_hostnames |-> FALSE],
     [instance_tenancy |-> "dedicated", dns_support |-> FALSE, dns_hostnames |-> TRUE]}

\* subnet_ids / route_table_ids: null, or a list of identifiers
IdLists(S) == {[given |-> FALSE, ids |-> {}]} \cup {[given |-> TRUE, ids |-> x] : x \in SUBSET S}

Params(vpc_id, cidr, tags, subnet_ids, route_table_ids, wait, attrs) ==
    [vpc_id |-> vpc_id, cidr_block |-> cidr, resource_tags |-> tags,
     subnet_ids |-> subnet_ids, route_table_ids |-> route_table_ids,
     wait |-> wait, instance_tenancy |-> attrs.instance_tenancy,
     dns_support |-> attrs.dns_support, dns_hostnames |-> attrs.dns_hostnames]

NoSubnets == [s \in SubnetIds |-> None]
NoRouteTable == [vpc |-> None, assoc |-> <<>>]
NoRouteTables == [r \in RtIds |-> NoRouteTable]

\* the associations of a route table of the play's VPC: with a subnet, or with
\* a subnet and as the main table
Associations == {<<FALSE>>, <<FALSE, TRUE>>}

InitMatch ==
    /\ vpcs \in {f \in [VpcIds -> VpcKinds \cup {NoVpc}] :
                   \A v \in VpcIds \ PopulatedVpcIds : f[v] = NoVpc}
    /\ subnetVpc = NoSubnets
    /\ rts = NoRouteTables
    /\ spec \in {Params(id, cidr, tags, l, l, wait, attrs) :
                   id \in {None, 1}, cidr \in {NoCidr, "10.0.0.0/16"},
                   tags \in DesiredTags, l \in {[given |-> FALSE, ids |-> {}]},
                   wait \in {FALSE}, attrs \in {a \in Attributes : ~a.dns_support}}

\* VPC 1 is the play's, VPC 2 another one
TwoVpcs ==
    [v \in VpcIds |->
        IF v = 1 THEN Vpc("available", "10.0.0.0/16", Tags("dev", NoVal))
        ELSE IF v = 2 THEN Vpc("available", "10.1.0.0/16", Tags("dev", "prod"))
        ELSE NoVpc]

InitSubnets ==
    /\ vpcs = TwoVpcs
    /\ subnetVpc \in [SubnetIds -> {None, 1, 2}]
    /\ rts = [r \in RtIds |->
                IF r = 1 THEN [vpc |-> 1, assoc |-> <<TRUE>>]
                ELSE IF r = 2 THEN [vpc |-> 1, assoc |-> <<>>]
                ELSE NoRouteTable]
    /\ spec \in {Params(n[1], "10.0.0.0/16", n[2], sn, rt, FALSE, attrs) :
                   n \in {<<None, Tags("dev", NoVal)>>, <<1, Tags("dev", "prod")>>},
                   sn \in IdLists(SubnetIds),
                   rt \in {[given |-> FALSE, ids |-> {}], [given |-> TRUE, ids |-> {}]},
                   attrs \in {a \in Attributes : a.dns_support}}

InitRouteTables ==
    /\ vpcs = TwoVpcs
    /\ subnetVpc = [s \in SubnetIds |-> IF s <= 2 THEN s ELSE None]
    /\ rts \in [RtIds -> {NoRouteTable} \cup
                         {[vpc |-> 1, assoc |-> a] : a \in Associations} \cup
                         {[vpc |-> 2, assoc |-> <<>>]}]
    /\ spec \in {Params(1, NoCidr, Tags("dev", NoVal), sn, rt, FALSE, attrs) :
                   sn \in {[given |-> TRUE, ids |-> {1}]},
                   rt \in IdLists(RtIds),
                   attrs \in {a \in Attributes : a.dns_support}}

\* a play that creates its VPC and names children; the provider holds one or
\* two VPCs of other plays
InitCreate ==
    /\ vpcs \in {[v \in VpcIds |-> IF v \in others
                                   THEN Vpc("available", "10.1.0.0/16", Tags("dev", NoVal))
                                   ELSE NoVpc] : others \in {{1}, PopulatedVpcIds}}
    /\ subnetVpc \in {NoSubnets, [s \in SubnetIds |-> IF s = 1 THEN 1 ELSE None]}
    /\ rts = NoRouteTables
    /\ spec \in {Params(None, "10.0.0.0/16", Tags("dev", NoVal), sn, rt, wait, attrs) :
                   sn \in {[given |-> TRUE, ids |-> {}], [given |-> TRUE, ids |-> {1}]},
                   rt \in {[given |-> FALSE, ids |-> {}], [given |-> TRUE, ids |-> {}]},
                   wait \in BOOLEAN,
                   attrs \in {a \in Attributes : a.dns_support}}

InitProvider == InitMatch \/ InitSubnets \/ InitRouteTables \/ InitCreate

Init ==
    /\ InitProvider
    /\ active = {"p1"}
    /\ proc = [p \in Procs |-> InitProc]

Next ==
    \/ \E p \in Procs :
         \/ Begin(p)
         \/ FindStep(p)
         \/ CreateStep(p)
         \/ WaitCond(p)
         \/ Poll(p)
         \/ Sleep(p)
         \/ WaitCheck(p)
         \/ Tick(p)
         \/ TagsStep(p)
         \/ CreateTags(p)
         \/ ModifyDnsSupport(p)
         \/ ModifyDnsHostnames(p)
         \/ ListSubnets(p)
         \/ SubnetLoop(p)
         \/ JsonSubnets(p)
         \/ ListRouteTables(p)
         \/ RouteTableLoop(p)
    \/ \E v \in VpcIds : VpcBecomesAvailable(v)

Spec == Init /\ [][Next]_vars

(***************************************************************************)
(* What the claims speak of.                                               *)
(***************************************************************************)
\* the pass of p has ended
Ended(p) == proc[p].pc = "idle" /\ proc[p].result.kind # "none"

\* the available VPCs with the requested cidr block whose tags contain every
\* desired pair
MatchingVpcs ==
    {v \in VpcIds : /\ vpcs[v].state = "available"
                    /\ vpcs[v].cidr = spec.cidr_block
                    /\ Items(spec.resource_tags) \subseteq Items(vpcs[v].tags)}

\* the parameters name a VPC by cidr block and tags
NamedByTags ==
    /\ spec.vpc_id = None
    /\ spec.cidr_block # NoCidr
    /\ Items(spec.resource_tags) # {}

\* p takes the step of find_vpc, and the provider answers its reads
Finds(p) ==
    /\ proc[p].pc = "find"
    /\ proc'[p].pc # "find"
    /\ proc'[p].result.err # "EC2ResponseError"

(***************************************************************************)
(* C1.  With check_mode set, neither ensure_vpc_present nor                *)
(* ensure_vpc_absent issues a mutating provider call: the log of a pass in *)
(* check mode is empty at every point of the pass.                         *)
(***************************************************************************)
C1_DryRunIssuesNoCall ==
    \A p \in Procs : proc[p].check => proc[p].log = <<>>

\* a present pass in check mode that found its VPC and reports a change at the
\* subnets, where the other mode deletes
C1_Witness ==
    \E p \in Procs :
        /\ Ended(p) /\ proc[p].check /\ proc[p].mode = "present"
        /\ proc[p].found /\ proc[p].at = "subnet_loop"
        /\ proc[p].result.kind = "ok" /\ proc[p].result.changed

(***************************************************************************)
(* C2.  When the VPC is named by cidr block and tags and more than one     *)
(* available VPC with that cidr block carries every desired pair, the step *)
(* of find_vpc ends the pass, present or absent, with the ambiguous-match  *)
(* error; the pass has issued no mutating call and the provider is as it   *)
(* was.  (find_vpc refuses parameters without vpc_id, cidr block or tags   *)
(* before it matches, lines 219-222.)                                      *)
(***************************************************************************)
C2_AmbiguousMatchFails ==
    [][\A p \in Procs :
         (Finds(p) /\ NamedByTags /\ Cardinality(MatchingVpcs) > 1)
            => /\ proc'[p].pc = "idle"
               /\ proc'[p].result.kind = "fail"
               /\ proc'[p].result.err = "AmbiguousMatch"
               /\ proc'[p].log = <<>>
               /\ UNCHANGED Provider]_vars

\* a pass that ended with the ambiguous-match error
C2_Witness ==
    \E p \in Procs :
        /\ Ended(p) /\ proc[p].result.err = "AmbiguousMatch"
        /\ NamedByTags /\ Cardinality(MatchingVpcs) > 1

(***************************************************************************)
(* C3.  When the VPC is named by cidr block and tags, find_vpc returns the *)
(* VPC v exactly when v is the only available VPC with that cidr block     *)
(* whose tags contain every desired pair, key and value; it returns None   *)
(* when there is no such VPC; and this holds in whatever order the         *)
(* provider lists the candidates.                                          *)
(***************************************************************************)
C3_FindVpcUnique ==
    [][\A p \in Procs :
         (Finds(p) /\ NamedByTags)
            => /\ \A v \in VpcIds :
                    (proc'[p].found /\ proc'[p].vpc = v) <=> MatchingVpcs = {v}
               /\ MatchingVpcs = {} =>
                    (~proc'[p].found /\ proc'[p].result.kind # "fail")]_vars

\* find_vpc returned a VPC although another available VPC with the same cidr
\* block carries a desired key with another value
C3_Witness ==
    \E p \in Procs :
        /\ NamedByTags /\ proc[p].found /\ proc[p].at = "find"
        /\ \E w \in VpcIds \ {proc[p].vpc} :
              /\ vpcs[w].state = "available"
              /\ vpcs[w].cidr = spec.cidr_block
              /\ \E k \in TagKeys : /\ spec.resource_tags[k] # NoVal
                                    /\ vpcs[w].tags[k] # NoVal
                                    /\ vpcs[w].tags[k] # spec.resource_tags[k]

\* the steps of ensure_vpc_present after the tags were read and compared
AfterCreateTags ==
    {"attrs", "attrs2", "subnets", "subnet_loop", "json_subnets", "route_tables",
     "rt_loop"}

\* the pass P has read the tags of its VPC (line 324)
PastTags(P) ==
    \/ P.pc \in AfterCreateTags \cup {"create_tags"}
    \/ P.pc = "idle" /\ P.at \in AfterCreateTags \cup {"create_tags"}
    \/ P.pc = "idle" /\ P.at = "tags" /\ P.result.kind = "ok"

\* the pass P is beyond line 346
PastCreateTags(P) ==
    \/ P.pc \in AfterCreateTags
    \/ P.pc = "idle" /\ P.at \in AfterCreateTags

(***************************************************************************)
(* C4.  In a present pass, with T the desired pairs and O the pairs read   *)
(* from the resolved VPC: create_tags is called at most once, on that VPC, *)
(* with exactly the pairs T \ O, and not at all when T \ O is empty or in  *)
(* check mode; after the call the VPC carries every pair of T; and the     *)
(* next pass of the invocation on the VPC it has tagged reads tags with    *)
(* T \ O empty and does not call create_tags.                              *)
(***************************************************************************)
C4_TagsMissingOnly ==
    \A p \in Procs :
        LET P == proc[p]
            T == Items(spec.resource_tags)
            O == Items(P.vpc_tags)
            calls == CallsOf(P, "create_tags")
        IN
        (P.mode = "present" /\ PastTags(P)) =>
            /\ Cardinality(calls) <= 1
            /\ \A i \in calls : /\ P.log[i].id = P.vpc
                                /\ Items(P.log[i].tags) = T \ O
                                /\ T \ O # {}
                                /\ ~P.check
            /\ (PastCreateTags(P) /\ ~P.check /\ T \ O # {})
                  => DoneCallsOf(P, "create_tags") # {}
            /\ DoneCallsOf(P, "create_tags") # {}
                  => T \subseteq Items(vpcs[P.vpc].tags)
            /\ (P.prev_tagged # None /\ P.vpc = P.prev_tagged)
                  => (T \ O = {} /\ calls = {})

\* the pass after a pass that tagged the VPC has got beyond the tags
C4_Witness ==
    \E p \in Procs :
        /\ proc[p].mode = "present" /\ ~proc[p].check
        /\ PastCreateTags(proc[p])
        /\ proc[p].prev_tagged # None /\ proc[p].vpc = proc[p].prev_tagged

(***************************************************************************)
(* C5.  A present pass never calls delete_route_table on a route table     *)
(* that has an association marked main, whatever route_table_ids lists.    *)
(***************************************************************************)
IsMain(r) == \E i \in 1..Len(rts[r].assoc) : rts[r].assoc[i]

C5_MainRouteTableKept ==
    [][\A p \in Procs :
         \A i \in 1..Len(proc'[p].log) :
            (i > Len(proc[p].log) /\ proc'[p].log[i].op = "delete_route_table")
               => ~IsMain(proc'[p].log[i].id)]_vars

\* a pass has deleted a route table and has ended with a main table of its
\* VPC that route_table_ids does not list
C5_Witness ==
    \E p \in Procs :
        /\ Ended(p) /\ proc[p].result.kind = "ok" /\ spec.route_table_ids.given
        /\ DoneCallsOf(proc[p], "delete_route_table") # {}
        /\ \E r \in RtIds : /\ rts[r].vpc = proc[p].vpc
                            /\ IsMain(r)
                            /\ r \notin spec.route_table_ids.ids

(***************************************************************************)
(* C6.  A present pass whose subnet_ids lists an identifier that is not    *)
(* among the subnets of the VPC ends with the UnknownChildId error, an     *)
(* AnsibleVPCException that main reports through fail_json, and has called *)
(* neither delete_subnet nor delete_route_table.  (A pass that ends at     *)
(* line 364 without a failed read has found such an identifier.)           *)
(***************************************************************************)
C6_UnknownSubnetFails ==
    \A p \in Procs :
        (Ended(p) /\ proc[p].at = "subnets" /\ proc[p].result.err # "EC2ResponseError")
            => /\ proc[p].result.kind = "fail"
               /\ proc[p].result.err = "UnknownChildId"
               /\ CallsOf(proc[p], "delete_subnet") = {}
               /\ CallsOf(proc[p], "delete_route_table") = {}

(***************************************************************************)
(* C7.  A teardown (state=absent) without check mode of a VPC that the     *)
(* matcher finds, available, calls delete_vpc on it and reports            *)
(* changed=true, unless the provider refuses a call.                       *)
(***************************************************************************)
C7_TeardownDeletes ==
    \A p \in Procs :
        LET P == proc[p] IN
        (Ended(p) /\ P.mode = "absent" /\ ~P.check /\ P.found
                  /\ P.result.err # "ProviderError")
            => /\ P.result.kind = "ok"
               /\ P.result.changed
               /\ \E i \in DoneCallsOf(P, "delete_vpc") : P.log[i].id = P.vpc

(***************************************************************************)
(* C8.  A teardown with nothing available to delete (the matcher returns   *)
(* no VPC, or one that is not available) returns normally with             *)
(* changed=false and has issued no call, with and without check mode.      *)
(***************************************************************************)
C8_TeardownNoOp ==
    \A p \in Procs :
        LET P == proc[p] IN
        (Ended(p) /\ P.mode = "absent"
                  /\ P.result.err \notin {"InvalidSpec", "AmbiguousMatch", "EC2ResponseError"}
                  /\ (~P.found \/ vpcs[P.vpc].state # "available"))
            => /\ P.result.kind = "ok"
               /\ ~P.result.changed
               /\ P.log = <<>>

(***************************************************************************)
(* C9.  In a present pass: when the matcher returns no VPC and check mode  *)
(* is off, create_vpc is called exactly once, with (cidr_block,            *)
(* instance_tenancy), and a pass that ends well reports changed=true; when *)
(* the matcher returns the one VPC that the parameters name, create_vpc is *)
(* never called and the calls of the pass are made on that VPC.            *)
(***************************************************************************)
\* the VPCs that the parameters name
Resolvable ==
    IF spec.vpc_id # None
    THEN {v \in VpcIds : v = spec.vpc_id /\ vpcs[v].state = "available"}
    ELSE MatchingVpcs

\* the pass Q is beyond the call of create_vpc, or is one that makes none
PastCreate(Q) ==
    \/ Q.pc \notin {"idle", "find", "create"}
    \/ Q.pc = "idle" /\ Q.at \notin {"idle", "find"}

C9_CreateWhenNotFound ==
    [][\A p \in Procs :
         LET P == proc[p]
             Q == proc'[p]
             creates == CallsOf(Q, "create_vpc")
         IN
         /\ (Finds(p) /\ P.mode = "present" /\ (NamedByTags \/ spec.vpc_id # None))
               => /\ (Resolvable = {} /\ ~P.check) => (Q.pc = "create" /\ Q.changed)
                  /\ \A v \in VpcIds :
                        Resolvable = {v} => (Q.pc = "tags" /\ Q.found /\ Q.vpc = v)
         /\ Q.mode = "present"
               => /\ Cardinality(creates) =
                        IF ~Q.found /\ ~Q.check /\ PastCreate(Q) THEN 1 ELSE 0
                  /\ \A i \in creates : /\ Q.log[i].a1 = spec.cidr_block
                                        /\ Q.log[i].a2 = spec.instance_tenancy
                  /\ (Q.pc = "idle" /\ Q.result.kind = "ok" /\ ~Q.found)
                        => Q.result.changed
                  /\ Q.found =>
                        \A i \in CallsOf(Q, "create_tags")
                                   \cup CallsOf(Q, "modify_vpc_attribute") :
                            Q.log[i].id = Q.vpc]_vars

\* a pass that found no VPC has created one and has ended well
C9_Witness ==
    \E p \in Procs :
        /\ Ended(p) /\ proc[p].mode = "present" /\ ~proc[p].check /\ ~proc[p].found
        /\ proc[p].result.kind = "ok" /\ proc[p].result.changed
        /\ DoneCallsOf(proc[p], "create_vpc") # {}

(***************************************************************************)
(* C10.  A present pass without check mode that is given subnet_ids and    *)
(* ends well has called delete_subnet on exactly the subnets it observed   *)
(* on the VPC that subnet_ids does not list: every listed subnet is still  *)
(* on the VPC, every other observed subnet is gone, and the pass has made  *)
(* no call that creates a subnet or a route table.                         *)
(***************************************************************************)
MutatingCalls ==
    {"create_vpc", "create_tags", "modify_vpc_attribute", "delete_subnet",
     "delete_route_table"}

ChangingCalls == {"create_vpc", "create_tags", "delete_subnet", "delete_route_table"}

\* nothing but the pass P has touched the provider since the pass before it ended
Undisturbed(P) == P.prev_pending \subseteq PendingVpcs

C11_PresentConverges ==
    \A p \in Procs :
        LET P == proc[p] IN
        (P.rerun /\ Undisturbed(P))
            => /\ \A i \in 1..Len(P.log) : P.log[i].op \notin ChangingCalls
               /\ (Ended(p) /\ P.result.kind = "ok") => ~P.result.changed

\* the part of C11 that the code keeps: the play names its VPC by cidr block
\* and tags, and no VPC was pending when the first pass ended
C11_ConvergesWhenAvailable ==
    \A p \in Procs :
        LET P == proc[p] IN
        (P.rerun /\ P.prev_pending = {} /\ NamedByTags)
            => /\ \A i \in 1..Len(P.log) : P.log[i].op \notin ChangingCalls
               /\ (Ended(p) /\ P.result.kind = "ok") => ~P.result.changed

(***************************************************************************)
(* C12.  In check mode, whenever the pass stands where a pass without      *)
(* check mode would issue a mutating call next (create_vpc when the        *)
(* matcher found nothing, create_tags when desired pairs are missing, the  *)
(* deletion of a subnet that is not listed or of a route table that is     *)
(* neither listed nor main, the teardown of a VPC that the matcher found   *)
(* available), its step ends the pass with changed=true, and no call has   *)
(* been issued and the provider is as it was.  (The provider answers the   *)
(* reads of the step.)                                                     *)
(***************************************************************************)
\* the pass of p stands where a pass without check mode would mutate next
WouldMutate(p) ==
    LET P == proc[p]
        valid == ~InvalidSpec(spec.resource_tags, spec.vpc_id, spec.cidr_block)
    IN
    \/ P.pc = "find" /\ P.mode = "present" /\ valid /\ Resolvable = {}
    \/ P.pc = "find" /\ P.mode = "absent" /\ valid /\ Cardinality(Resolvable) = 1
    \/ P.pc = "tags" /\ Items(spec.resource_tags) \ Items(vpcs[P.vpc].tags) # {}
    \/ /\ P.pc = "subnet_loop" /\ P.i <= Len(P.current_subnets)
       /\ P.current_subnets[P.i] \notin spec.subnet_ids.ids
    \/ /\ P.pc = "rt_loop" /\ P.i <= Len(P.current_route_tables)
       /\ P.current_route_tables[P.i] \notin spec.route_table_ids.ids
       /\ ~IsMain(P.current_route_tables[P.i])

C12_DryRunReportsChange ==
    [][\A p \in Procs :
         LET P == proc[p]
             Q == proc'[p]
         IN
         (P.check /\ Q # P /\ WouldMutate(p) /\ Q.result.err # "EC2ResponseError")
            => /\ Q.pc = "idle"
               /\ Q.result.kind = "ok"
               /\ Q.result.changed
               /\ Q.log = <<>>
               /\ UNCHANGED Provider]_vars

\* a teardown in check mode has found its VPC available and has reported a change
C12_Witness ==
    \E p \in Procs :
        /\ Ended(p) /\ proc[p].check /\ proc[p].mode = "absent" /\ proc[p].found
        /\ vpcs[proc[p].vpc].state = "available"
        /\ proc[p].result.kind = "ok" /\ proc[p].result.changed

(***************************************************************************)
(* C13.  A poll of the wait loop that gets the error InvalidVpcID.NotFound *)
(* leaves the VPC pending and the pass running: the loop sleeps next, and  *)
(* polls again while the deadline allows.  A poll that gets an error with  *)
(* another code ends the pass with the provider error that main reports    *)
(* through fail_json, made from that code (line 319).                      *)
(***************************************************************************)
C13_PollErrors ==
    [][\A p \in Procs :
         LET P == proc[p]
             Q == proc'[p]
         IN
         /\ (P.pc = "poll" /\ Q.pc # "poll" /\ Q.answer \in PollErrorCodes)
               => IF Q.answer = NotFoundCode
                  THEN /\ Q.pc = "sleep" /\ Q.pending
                       /\ Q.result.kind = "none"
                  ELSE /\ Q.pc = "idle" /\ Q.at = "poll"
                       /\ Q.result.kind = "fail"
                       /\ Q.result.err = "ProviderError"
         \* after the sleep the loop polls again while the deadline allows
         /\ (P.pc = "wait_cond" /\ Q.pc # "wait_cond"
                /\ P.answer = NotFoundCode /\ P.left > 0)
               => Q.pc = "poll"]_vars

\* a pass got InvalidVpcID.NotFound from a poll, saw the VPC available in a
\* later poll, and ended well
C13_Witness ==
    \E p \in Procs :
        /\ Ended(p) /\ proc[p].result.kind = "ok" /\ spec.wait
        /\ proc[p].eBound /\ proc[p].polled

(***************************************************************************)
(* C14.  With wait set the wait for availability ends: the time left to    *)
(* the deadline never grows while the pass waits, the loop polls only      *)
(* while time is left and no poll has seen the VPC available, it comes     *)
(* back to its test without a sleep only after a poll saw the VPC          *)
(* available, and every sleep uses up time, so that the loop makes at most *)
(* WaitTicks rounds.  When the deadline has passed with the VPC still      *)
(* pending, the pass fails with WaitTimeout and create_vpc is the only     *)
(* call it has issued.                                                     *)
(***************************************************************************)
WaitPcs == {"wait_cond", "poll", "sleep", "wait_check"}

C14_WaitEnds ==
    [][\A p \in Procs :
         LET P == proc[p]
             Q == proc'[p]
         IN
         spec.wait =>
           /\ (P.pc \in WaitPcs /\ Q.pc \in WaitPcs)
                 => (Q.left <= P.left /\ Q.left >= 0)
           /\ (P.pc = "wait_cond" /\ Q.pc # "wait_cond")
                 => IF P.left > 0 /\ P.pending
                    THEN Q.pc = "poll" ELSE Q.pc = "wait_check"
           /\ (P.pc = "poll" /\ Q.pc = "wait_cond")
                 => (~Q.pending /\ Q.answer = "available")
           /\ (P.pc = "poll" /\ Q.pc = "sleep") => Q.pending
           /\ (P.pc = "sleep" /\ Q.pc # "sleep")
                 => (Q.pc = "wait_cond" /\ (Q.left < P.left \/ P.left = 0))
           /\ (P.pc = "wait_check" /\ Q.pc # "wait_check"
                  /\ P.left = 0 /\ P.pending)
                 => /\ Q.pc = "idle"
                    /\ Q.result.kind = "fail"
                    /\ Q.result.err = "WaitTimeout"
                    /\ \A i \in 1..Len(Q.log) : Q.log[i].op = "create_vpc"]_vars

\* a pass has waited until the deadline for a VPC that is still pending, and
\* has failed
C14_Witness ==
    \E p \in Procs :
        /\ Ended(p) /\ spec.wait /\ proc[p].result.err = "WaitTimeout"
        /\ proc[p].pending /\ vpcs[proc[p].vpc].state = "pending"
        /\ proc[p].answer = "pending"

(***************************************************************************)
(* C15.  A pass, present or absent, in which a provider call failed (a     *)
(* read of VPCs, tags, subnets or route tables, create_vpc, create_tags,   *)
(* modify_vpc_attribute, a delete) ends with an AnsibleVPCException that   *)
(* main reports through fail_json: it neither dies with an exception that  *)
(* main does not catch nor ends as if nothing had failed.                  *)
(***************************************************************************)
\* a provider call of the pass P has failed
ProviderFailed(P) ==
    \/ \E i \in 1..Len(P.log) : ~P.log[i].ok
    \/ P.result.err \in {"EC2ResponseError", "ProviderError"}

C15_ProviderFailuresReported ==
    \A p \in Procs :
        (Ended(p) /\ ProviderFailed(proc[p]))
            => /\ proc[p].result.kind = "fail"
               /\ proc[p].result.err = "ProviderError"

(***************************************************************************)
(* C16.  A teardown without check mode of a VPC that the matcher found     *)
(* available, ending well, has issued its calls in the order: the subnet   *)
(* deletions, the detach and the deletion of each internet gateway, the    *)
(* deletions of the route tables that are not main, and delete_vpc as the  *)
(* last call; no call deletes a main route table.                          *)
(***************************************************************************)
\* in the log of P every call named a comes before every call named b
Before(P, a, b) ==
    \A i, j \in 1..Len(P.log) :
        (P.log[i].op = a /\ P.log[j].op = b) => i < j

C16_TeardownOrder ==
    \A p \in Procs :
        LET P == proc[p] IN
        (Ended(p) /\ P.mode = "absent" /\ ~P.check /\ P.found
                  /\ vpcs[P.vpc].state = "available" /\ P.result.kind = "ok")
            => /\ Len(P.log) > 0
               /\ P.log[Len(P.log)].op = "delete_vpc"
               /\ P.log[Len(P.log)].id = P.vpc
               /\ Cardinality(CallsOf(P, "delete_vpc")) = 1
               /\ Before(P, "delete_subnet", "detach_internet_gateway")
               /\ Before(P, "delete_subnet", "delete_internet_gateway")
               /\ Before(P, "detach_internet_gateway", "delete_route_table")
               /\ Before(P, "delete_internet_gateway", "delete_route_table")
               /\ Before(P, "delete_subnet", "delete_route_table")
               /\ \A i \in CallsOf(P, "delete_route_table") : ~IsMain(P.log[i].id)

ListedRouteTables(P) ==
    P.pc = "rt_loop" \/ (P.pc = "idle" /\ P.at = "rt_loop")

C18_UnknownRouteTableFails ==
    \A p \in Procs :
        LET P == proc[p] IN
        (P.mode = "present" /\ spec.route_table_ids.given /\ ListedRouteTables(P)
           /\ \E id \in spec.route_table_ids.ids : id \notin Range(P.current_route_tables))
            => /\ CallsOf(P, "delete_route_table") = {}
               /\ Ended(p) => /\ P.result.kind = "fail"
                              /\ P.result.err = "UnknownChildId"

(***************************************************************************)
(* C19, as the specification states it.  Every present pass that ends well *)
(* reports changed=true if it has issued a create_vpc, create_tags,        *)
(* delete_subnet or delete_route_table call, and changed=false if it has   *)
(* issued none.                                                            *)
(***************************************************************************)
\* the pass P has issued a call that counts as a change
IssuedChange(P) == \E i \in 1..Len(P.log) : P.log[i].op \in ChangingCalls

C19_ChangedIffCallIssued ==
    \A p \in Procs :
        LET P == proc[p] IN
        (Ended(p) /\ P.mode = "present" /\ P.result.kind = "ok")
            => (P.result.changed <=> IssuedChange(P))

(***************************************************************************)
(* C19, amended.  Every present pass without check mode that ends well     *)
(* reports changed=true if it has issued a create_vpc, create_tags,        *)
(* delete_subnet or delete_route_table call, and changed=false if it has   *)
(* issued none: a pass whose only calls are the attribute writes reports   *)
(* changed=false.  A pass in check mode that ends well has issued no call  *)
(* whatever it reports.                                                    *)
(***************************************************************************)
C19_ChangedIffMutated ==
    \A p \in Procs :
        LET P == proc[p] IN
        (Ended(p) /\ P.mode = "present" /\ P.result.kind = "ok")
            => IF P.check
               THEN P.log = <<>>
               ELSE P.result.changed <=> IssuedChange(P)

\* a pass has written the attributes, has made no other call, and has
\* reported changed=false
C19_Witness ==
    \E p \in Procs :
        LET P == proc[p] IN
        /\ Ended(p) /\ P.mode = "present" /\ ~P.check /\ P.result.kind = "ok"
        /\ CallsOf(P, "modify_vpc_attribute") # {}
        /\ ~IssuedChange(P)
        /\ ~P.result.changed

(***************************************************************************)
(* C20.  A present pass without check mode that is beyond the tag step and *)
(* in which no provider call failed writes the two dns attributes on the   *)
(* VPC it resolved, found or created and whatever its tags: a pass that    *)
(* leaves the tag step goes to the writes, and once it is beyond them, or  *)
(* has ended well, its attribute writes are exactly enable_dns_support     *)
(* with the desired value and then enable_dns_hostnames with the desired   *)
(* value.                                                                  *)
(***************************************************************************)
\* the attribute writes of the pass P, in the order of the log
AttributeWrites(P) ==
    SelectSeq(P.log, LAMBDA c : c.op = "modify_vpc_attribute")

\* the two writes that the parameters ask for, on the VPC v
DesiredWrites(v) ==
    <<Call("modify_vpc_attribute", v, "enable_dns_support",
           IF spec.dns_support THEN "yes" ELSE "no", NoTags, TRUE),
      Call("modify_vpc_attribute", v, "enable_dns_hostnames",
           IF spec.dns_hostnames THEN "yes" ELSE "no", NoTags, TRUE)>>

\* the pass P is beyond line 355
PastAttributes(P) ==
    LET later == {"subnets", "subnet_loop", "json_subnets", "route_tables", "rt_loop"}
    IN  P.pc \in later \/ (P.pc = "idle" /\ P.at \in later)

C20_AttributesAlwaysWritten ==
    [][\A p \in Procs :
         LET P == proc[p]
             Q == proc'[p]
         IN
         (Q.mode = "present" /\ ~Q.check) =>
           /\ (P.pc \in {"tags", "create_tags"} /\ Q.pc # P.pc /\ ~ProviderFailed(Q))
                 => (Q.pc \in {"create_tags", "attrs"} /\ Q.vpc # None)
           /\ (P.pc = "create_tags" /\ Q.pc # P.pc /\ ~ProviderFailed(Q))
                 => Q.pc = "attrs"
           /\ (PastAttributes(Q) \/ (Q.pc = "idle" /\ Q.result.kind = "ok"))
                 => AttributeWrites(Q) = DesiredWrites(Q.vpc)
           /\ Len(AttributeWrites(Q)) <= Len(DesiredWrites(Q.vpc))]_vars

\* a pass has created its VPC, has written both attributes on it while it was
\* still pending, and has ended well
C20_Witness ==
    \E p \in Procs :
        LET P == proc[p] IN
        /\ Ended(p) /\ P.mode = "present" /\ ~P.check /\ P.result.kind = "ok"
        /\ ~P.found /\ vpcs[P.vpc].state = "pending"
        /\ AttributeWrites(P) = DesiredWrites(P.vpc)

(***************************************************************************)
(* C21.  No step of a pass removes a tag from a VPC, and a tag whose key   *)
(* is not in resource_tags keeps its value: create_tags is given pairs of  *)
(* resource_tags only, and adds them.                                      *)
(***************************************************************************)
C21_TagsAdditiveOnly ==
    [][\A v \in VpcIds : \A k \in TagKeys :
         /\ vpcs[v].tags[k] # NoVal => vpcs'[v].tags[k] # NoVal
         /\ (vpcs[v].state # "none" /\ spec.resource_tags[k] = NoVal)
               => vpcs'[v].tags[k] = vpcs[v].tags[k]
         /\ vpcs'[v].tags[k] # vpcs[v].tags[k]
               => vpcs'[v].tags[k] = spec.resource_tags[k]]_vars

\* a pass has added a desired pair to a VPC that carries a tag whose key is
\* not in resource_tags
C21_Witness ==
    \E p \in Procs :
        LET P == proc[p] IN
        /\ Ended(p) /\ P.mode = "present" /\ P.result.kind = "ok"
        /\ DoneCallsOf(P, "create_tags") # {}
        /\ \E k \in TagKeys : /\ spec.resource_tags[k] = NoVal
                              /\ vpcs[P.vpc].tags[k] # NoVal
        /\ \E k \in TagKeys : /\ P.vpc_tags[k] \notin {NoVal, spec.resource_tags[k]}
                              /\ vpcs[P.vpc].tags[k] = spec.resource_tags[k]

(***************************************************************************)
(* C22.  A delete call that the provider refuses is the last call of its   *)
(* pass: the pass has ended with the provider error that main reports      *)
(* through fail_json, the children that the pass deleted before are still  *)
(* deleted, and the pass has made no call that creates a child.            *)
(***************************************************************************)
DeleteCalls ==
    {"delete_subnet", "delete_route_table", "detach_internet_gateway",
     "delete_internet_gateway", "delete_vpc"}

C22_DeleteFailsFast ==
    \A p \in Procs :
        LET P == proc[p] IN
        \A i \in 1..Len(P.log) :
            (P.log[i].op \in DeleteCalls /\ ~P.log[i].ok)
                => /\ i = Len(P.log)
                   /\ Ended(p)
                   /\ P.result.kind = "fail"
                   /\ P.result.err = "ProviderError"
                   /\ \A j \in 1..(i - 1) :
                         /\ P.log[j].op \in MutatingCalls
                         /\ P.log[j].op = "delete_subnet"
                               => subnetVpc[P.log[j].id] = None
                         /\ P.log[j].op = "delete_route_table"
                               => rts[P.log[j].id].vpc = None

\* a pass has deleted a subnet, and the provider has refused the deletion of
\* the next one
C22_Witness ==
    \E p \in Procs :
        LET P == proc[p] IN
        /\ Ended(p) /\ P.result.kind = "fail" /\ Len(P.log) > 1
        /\ P.log[Len(P.log)].op = "delete_subnet" /\ ~P.log[Len(P.log)].ok
        /\ DoneCallsOf(P, "delete_subnet") # {}

(***************************************************************************)
(* Two invocations of the same play, interleaved call by call.  The play   *)
(* names its VPC by cidr block and tags, and no VPC of that name is there  *)
(* when they start.  The play names no children and does not wait, so the  *)
(* loops over subnets and route tables and the wait loop have nothing to   *)
(* do.                                                                     *)
(***************************************************************************)
\* the provider has room for two VPCs: the other identifiers carry VPCs of
\* other plays
RaceInit ==
    /\ vpcs = [v \in VpcIds |->
                 IF v \in PopulatedVpcIds THEN NoVpc
                 ELSE Vpc("available", "10.1.0.0/16", Tags("dev", NoVal))]
    /\ subnetVpc = NoSubnets
    /\ rts = NoRouteTables
    /\ spec \in {Params(None, "10.0.0.0/16", Tags("dev", NoVal),
                        [given |-> FALSE, ids |-> {}], [given |-> FALSE, ids |-> {}],
                        wait, attrs) :
                   wait \in {FALSE}, attrs \in {a \in Attributes : a.dns_support}}
    /\ active = Procs
    /\ proc = [p \in Procs |-> InitProc]

RaceNext ==
    \/ \E p \in Procs :
         \/ Begin(p)
         \/ FindStep(p)
         \/ CreateStep(p)
         \/ WaitCond(p)
         \/ WaitCheck(p)
         \/ TagsStep(p)
         \/ CreateTags(p)
         \/ ModifyDnsSupport(p)
         \/ ModifyDnsHostnames(p)
         \/ ListSubnets(p)
         \/ JsonSubnets(p)
         \/ ListRouteTables(p)
    \/ \E v \in VpcIds : VpcBecomesAvailable(v)

RaceSpec == RaceInit /\ [][RaceNext]_vars

(***************************************************************************)
(* C23.  Two invocations of a play that names its VPC by cidr block and    *)
(* tags can each find no VPC and each create one (C23_Witness).  Nothing   *)
(* the module does takes a VPC of that name away again, so that once two   *)
(* of them are available and tagged, the step of find_vpc of every         *)
(* invocation, present or absent, ends the pass with the ambiguous-match   *)
(* error, with no call issued and the provider as it was.                  *)
(***************************************************************************)
C23_DuplicatesStayAmbiguous ==
    [][/\ Cardinality(MatchingVpcs') >= Cardinality(MatchingVpcs)
       /\ \A p \in Procs :
            (Finds(p) /\ Cardinality(MatchingVpcs) > 1)
               => /\ Ended(p)'
                  /\ proc'[p].result.kind = "fail"
                  /\ proc'[p].result.err = "AmbiguousMatch"
                  /\ proc'[p].log = <<>>
                  /\ UNCHANGED Provider]_vars

\* both invocations have created and tagged a VPC (the provider had none of
\* that name when they started), both VPCs are available, and the next pass
\* of one of the invocations has ended with the ambiguous-match error
C23_Witness ==
    \E p, q \in Procs :
        LET P == proc[p]
            Q == proc[q]
        IN
        /\ p # q
        /\ Ended(q) /\ Q.result.kind = "ok" /\ ~Q.found
        /\ DoneCallsOf(Q, "create_vpc") # {} /\ DoneCallsOf(Q, "create_tags") # {}
        /\ P.prev_tagged \notin {None, Q.vpc}
        /\ MatchingVpcs = {P.prev_tagged, Q.vpc}
        /\ Ended(p) /\ P.result.err = "AmbiguousMatch" /\ P.log = <<>>

(***************************************************************************)
(* C24.  A pass without check mode that ends well reports the changed      *)
(* value that the pass in check mode reported for the same parameters,     *)
(* state (present or absent) and provider state: the pass before it was    *)
(* that pass in check mode, and nothing but the pass itself has touched    *)
(* the provider since.                                                     *)
(***************************************************************************)
C24_DryRunPredicts ==
    \A p \in Procs :
        LET P == proc[p] IN
        (Ended(p) /\ P.result.kind = "ok" /\ P.predicted # "-" /\ Undisturbed(P))
            => P.predicted = YesNo(P.result.changed)

\* the part of C24 that the code keeps: state=present
C24_DryRunPredictsPresent ==
    \A p \in Procs :
        LET P == proc[p] IN
        (Ended(p) /\ P.result.kind = "ok" /\ P.predicted # "-" /\ Undisturbed(P)
                  /\ P.mode = "present")
            => P.predicted = YesNo(P.result.changed)

(***************************************************************************)
(* C25.  With wait set, a pass one of whose polls, made before the         *)
(* deadline, saw the new VPC available does not end with the WaitTimeout   *)
(* error, however the clock runs between that poll and the test of the     *)
(* deadline after the loop.                                                *)
(***************************************************************************)
C25_AvailableNeverTimesOut ==
    \A p \in Procs :
        (spec.wait /\ proc[p].polled)
            => proc[p].result.err # "WaitTimeout"

====
